---- MODULE Spec2Model ----
(***************************************************************************)
(* gerrit-stats: the aggregation of parsed reviews into per-user,          *)
(* per-repository counters (collect_stats, src/main.rs), the eligibility   *)
(* test and the derived facts of a review (src/review.rs), the average row *)
(* and the two report writers, and the fan-out/join of the fetch tasks in  *)
(* main.                                                                   *)
(*                                                                         *)
(* Encoding.  Option<T> is a sequence of length <= 1: <<>> is None and     *)
(* <<x>> is Some(x).  A map (HashMap, BTreeMap) is a function whose DOMAIN *)
(* is the set of keys present.  A toml calendar date is its day number     *)
(* since the epoch.  A commit message is a sequence of one-character       *)
(* strings.  A panic (a failed expect, an unchecked index, a division by   *)
(* zero) moves pc to "panicked" and records the message in panic.          *)
(***************************************************************************)
EXTENDS Integers, Sequences, FiniteSets, TLC

VARIABLES
    pc,        \* position of main: spawn, join, parse, collect, write_simple, write_detailed, done, panicked
    panic,     \* message of the panic that ended the run, "" while running
    cmds,      \* main: one entry per spawned fetch task: running, an Ok(output) or an Err
    outidx,    \* main: number of fetch outputs already decoded by the parse loop
    reviews,   \* main: Vec<Review> built by the parse loop
    review,    \* collect_stats: the loop variable, the review of the last iteration
    nproc,     \* collect_stats: number of loop iterations begun
    stats,     \* collect_stats: UserStatistics
    avg,       \* write_simple_stats: Option<Stats> returned by get_average_stats
    files      \* file system: file name -> rows flushed to it (key present = file created)

vars == <<pc, panic, cmds, outidx, reviews, review, nproc, stats, avg, files>>

\* -------------------------------------------------------------------------
\* Bounds
\* -------------------------------------------------------------------------
MaxReviews == 2      \* reviews folded by one run of collect_stats
MaxLines == 2        \* lines in the standard output of one fetch task

\* -------------------------------------------------------------------------
\* Options and maps
\* -------------------------------------------------------------------------
None == <<>>
Some(x) == <<x>>
IsSome(o) == Len(o) = 1
Unwrap(o) == o[1]

EmptyMap == <<>>

\* map.entry(k).or_insert_with(|| d): the map with k present
EntryOrInsert(m, k, d) == IF k \in DOMAIN m THEN m ELSE m @@ (k :> d)

\* map.insert(k, v): a later insert of the same key replaces the value
MapInsert(m, k, v) == IF k \in DOMAIN m THEN [m EXCEPT ![k] = v] ELSE m @@ (k :> v)

\* -------------------------------------------------------------------------
\* Configuration (src/main.rs Config, User)
\* -------------------------------------------------------------------------
\* The parsed config file, before fill_missing_dates: the global window is
\* day 1 to day 2, alice takes it, bob overrides its lower bound with day 2.
ConfigFile ==
    [from |-> 1, to |-> 2,
     user |-> << [username |-> "alice", fullname |-> "Alice A", from |-> None, to |-> None],
                 [username |-> "bob", fullname |-> "Bob B", from |-> Some(2), to |-> None] >>]

fill_missing_dates(c) ==
    [c EXCEPT !.user =
        [i \in DOMAIN c.user |->
            [c.user[i] EXCEPT
                !.from = IF ~IsSome(@) THEN Some(c.from) ELSE @,
                !.to = IF ~IsSome(@) THEN Some(c.to) ELSE @]]]

from_file == fill_missing_dates(ConfigFile)

config == from_file

RECURSIVE UserDatesFrom(_, _, _)
UserDatesFrom(us, i, m) ==
    IF i > Len(us) THEN m
    ELSE UserDatesFrom(us, i + 1,
            MapInsert(m, us[i].username, <<Unwrap(us[i].from), Unwrap(us[i].to)>>))

user_dates(c) == UserDatesFrom(c.user, 1, EmptyMap)

RECURSIVE UserNamesFrom(_, _, _)
UserNamesFrom(us, i, m) ==
    IF i > Len(us) THEN m
    ELSE UserNamesFrom(us, i + 1, MapInsert(m, us[i].username, us[i].fullname))

user_names(c) == UserNamesFrom(c.user, 1, EmptyMap)

\* -------------------------------------------------------------------------
\* Reviews (src/review.rs)
\* -------------------------------------------------------------------------
SecondsPerDay == 86400

\* "HH:MM:SS" as <<h, m, s>>
StartOfDay == <<0, 0, 0>>
EndOfDay == <<23, 59, 59>>

\* Datetime::timestamp: the date joined with the time, parsed as a naive
\* date-time, as seconds since the epoch
timestamp(date, time) == date * SecondsPerDay + time[1] * 3600 + time[2] * 60 + time[3]

\* Vec::last()
Last(s) == IF Len(s) = 0 THEN None ELSE Some(s[Len(s)])

\* Variant of is_within_date whose upper bound is exclusive
is_within_date_exclusive(r, from, to) ==
    LET f == timestamp(from, StartOfDay)
        t == timestamp(to, EndOfDay)
        patch == Last(r.patch_sets)
    IN  IF ~IsSome(patch) THEN [panic |-> "Failed to get last patch set", val |-> FALSE]
        ELSE IF ~IsSome(Unwrap(patch).approvals)
             THEN [panic |-> "Failed to get approval change", val |-> FALSE]
        ELSE LET as == Unwrap(Unwrap(patch).approvals)
             IN  [panic |-> "",
                  val |-> \E i \in DOMAIN as :
                             /\ as[i].review_type = "SUBM"
                             /\ f <= as[i].granted_on
                             /\ as[i].granted_on < t]

\* Variant of is_within_date that takes an absent approvals list for an
\* empty one
is_within_date_lenient(r, from, to) ==
    LET f == timestamp(from, StartOfDay)
        t == timestamp(to, EndOfDay)
        patch == Last(r.patch_sets)
    IN  IF ~IsSome(patch) THEN [panic |-> "Failed to get last patch set", val |-> FALSE]
        ELSE IF ~IsSome(Unwrap(patch).approvals) THEN [panic |-> "", val |-> FALSE]
        ELSE LET as == Unwrap(Unwrap(patch).approvals)
             IN  [panic |-> "",
                  val |-> \E i \in DOMAIN as :
                             /\ as[i].review_type = "SUBM"
                             /\ f <= as[i].granted_on
                             /\ as[i].granted_on <= t]

\* Review::is_within_date.  The result is a panic message or a boolean.
is_within_date(r, from, to) ==
    LET f == timestamp(from, StartOfDay)
        t == timestamp(to, EndOfDay)
        patch == Last(r.patch_sets)
    IN  IF ~IsSome(patch) THEN [panic |-> "Failed to get last patch set", val |-> FALSE]
        ELSE IF ~IsSome(Unwrap(patch).approvals)
             THEN [panic |-> "Failed to get approval change", val |-> FALSE]
        ELSE LET as == Unwrap(Unwrap(patch).approvals)
             IN  [panic |-> "",
                  val |-> \E i \in DOMAIN as :
                             /\ as[i].review_type = "SUBM"
                             /\ f <= as[i].granted_on
                             /\ as[i].granted_on <= t]

repository_name(r) == r.project

\* the inner loop of comments_made over one patch set's comments
RECURSIVE CommentsMadeIn(_, _, _, _, _)
CommentsMadeIn(cs, i, owner, users, m) ==
    IF i > Len(cs) THEN m
    ELSE LET u == cs[i].reviewer.username
         IN  CommentsMadeIn(cs, i + 1, owner, users,
                IF u \in DOMAIN users /\ u # owner
                THEN LET e == EntryOrInsert(m, u, 0) IN [e EXCEPT ![u] = @ + 1]
                ELSE m)

\* the outer loop of comments_made over the patch sets
RECURSIVE CommentsMadeFrom(_, _, _, _, _)
CommentsMadeFrom(ps, i, owner, users, m) ==
    IF i > Len(ps) THEN m
    ELSE CommentsMadeFrom(ps, i + 1, owner, users,
            IF IsSome(ps[i].comments)
            THEN CommentsMadeIn(Unwrap(ps[i].comments), 1, owner, users, m)
            ELSE m)

comments_made(r, users) == CommentsMadeFrom(r.patch_sets, 1, r.owner.username, users, EmptyMap)

RECURSIVE CommentsReceivedFrom(_, _, _)
CommentsReceivedFrom(ps, i, received) ==
    IF i > Len(ps) THEN received
    ELSE CommentsReceivedFrom(ps, i + 1,
            IF IsSome(ps[i].comments) THEN received + Len(Unwrap(ps[i].comments))
            ELSE received)

comments_received(r) == CommentsReceivedFrom(r.patch_sets, 1, 0)

RECURSIVE ApprovalsFrom(_, _, _, _)
ApprovalsFrom(as, i, users, acc) ==
    IF i > Len(as) THEN acc
    ELSE ApprovalsFrom(as, i + 1, users,
            IF /\ as[i].review_type = "Code-Review"
               /\ as[i].value = "2"
               /\ as[i].by.username \in DOMAIN users
            THEN Append(acc, as[i].by.username)
            ELSE acc)

\* Review::approvals.  The result is a panic message or the Vec of usernames.
approvals(r, users) ==
    LET patch == Last(r.patch_sets)
    IN  IF ~IsSome(patch) THEN [panic |-> "Failed to get last patch set", val |-> <<>>]
        ELSE IF ~IsSome(Unwrap(patch).approvals)
             THEN [panic |-> "Failed to get approval change", val |-> <<>>]
        ELSE [panic |-> "", val |-> ApprovalsFrom(Unwrap(Unwrap(patch).approvals), 1, users, <<>>)]

patch_set_count(r) == Len(r.patch_sets)

IsWhitespace(c) == c \in {" ", "\t", "\n", "\r"}

\* str::split_whitespace().count(): the maximal runs of non-whitespace
RECURSIVE SplitWhitespaceCount(_, _, _, _)
SplitWhitespaceCount(s, i, inWord, n) ==
    IF i > Len(s) THEN n
    ELSE IF IsWhitespace(s[i]) THEN SplitWhitespaceCount(s, i + 1, FALSE, n)
    ELSE SplitWhitespaceCount(s, i + 1, TRUE, IF inWord THEN n ELSE n + 1)

commit_message_words(r) == SplitWhitespaceCount(r.commit_message, 1, FALSE, 0)

\* -------------------------------------------------------------------------
\* Statistics (src/main.rs)
\* -------------------------------------------------------------------------
Stats_new ==
    [changes |-> 0, approvals |-> 0, comments_made |-> 0,
     comments_received |-> 0, commit_words |-> 0, patch_sets |-> 0]

Counters == {"changes", "approvals", "comments_made", "comments_received", "commit_words", "patch_sets"}

\* add_stats, the helper nested in collect_stats
add_stats(userStats, repo, received, patches, words) ==
    LET m == EntryOrInsert(userStats, repo, Stats_new)
    IN  [m EXCEPT ![repo] =
            [@ EXCEPT !.changes = @ + 1,
                      !.comments_received = @ + received,
                      !.patch_sets = @ + patches,
                      !.commit_words = @ + words]]

\* the body of `for (user, comment_count) in &made` for one entry
AddCommentsMade(st, user, comment_count, repo) ==
    LET s1 == EntryOrInsert(st, user, EmptyMap)
        u1 == EntryOrInsert(s1[user], "All", Stats_new)
        u2 == [u1 EXCEPT !["All"].comments_made = @ + comment_count]
        u3 == EntryOrInsert(u2, repo, Stats_new)
        u4 == [u3 EXCEPT ![repo].comments_made = @ + comment_count]
    IN  [s1 EXCEPT ![user] = u4]

\* `for (user, comment_count) in &made`: the entries touch distinct users, so
\* the HashMap's iteration order does not show in the result
RECURSIVE AddAllCommentsMade(_, _, _, _)
AddAllCommentsMade(st, made, todo, repo) ==
    IF todo = {} THEN st
    ELSE LET user == CHOOSE u \in todo : TRUE
         IN  AddAllCommentsMade(AddCommentsMade(st, user, made[user], repo),
                                made, todo \ {user}, repo)

\* the body of `for user in &approvals` for one element
AddApproval(st, user, repo) ==
    LET s1 == EntryOrInsert(st, user, EmptyMap)
        u1 == EntryOrInsert(s1[user], "All", Stats_new)
        u2 == [u1 EXCEPT !["All"].approvals = @ + 1]
        u3 == EntryOrInsert(u2, repo, Stats_new)
        u4 == [u3 EXCEPT ![repo].approvals = @ + 1]
    IN  [s1 EXCEPT ![user] = u4]

RECURSIVE AddAllApprovals(_, _, _, _)
AddAllApprovals(st, apps, i, repo) ==
    IF i > Len(apps) THEN st
    ELSE AddAllApprovals(AddApproval(st, apps[i], repo), apps, i + 1, repo)

\* The statements of the loop body of collect_stats after the eligibility
\* test, for an eligible review r.
AddReview(st, r, users) ==
    LET repo == repository_name(r)
        made == comments_made(r, users)
        received == comments_received(r)
        apps == approvals(r, users)
        patches == patch_set_count(r)
        words == commit_message_words(r)
        owner == r.owner.username
        s0 == EntryOrInsert(st, owner, EmptyMap)
        s1 == [s0 EXCEPT ![owner] = add_stats(@, "All", received, patches, words)]
        s2 == [s1 EXCEPT ![owner] = add_stats(@, repo, received, patches, words)]
        s3 == AddAllCommentsMade(s2, made, DOMAIN made, repo)
    IN  IF apps.panic # "" THEN [panic |-> apps.panic, stats |-> st]
        ELSE [panic |-> "", stats |-> AddAllApprovals(s3, apps.val, 1, repo)]

\* Variant of the iteration that skips a review whose owner has no window
collect_stats_iteration_checked(st, r, c) ==
    LET dates == user_dates(c)
        users == user_names(c)
        owner == r.owner.username
    IN  IF owner \notin DOMAIN dates
        THEN [panic |-> "", stats |-> st]
        ELSE LET within == is_within_date(r, dates[owner][1], dates[owner][2])
             IN  IF within.panic # "" THEN [panic |-> within.panic, stats |-> st]
                 ELSE IF ~within.val THEN [panic |-> "", stats |-> st]
                 ELSE AddReview(st, r, users)

\* One iteration of `for review in reviews` in collect_stats: the new
\* mapping, or the panic that ends the run.
collect_stats_iteration(st, r, c) ==
    LET dates == user_dates(c)
        users == user_names(c)
        owner == r.owner.username
    IN  IF owner \notin DOMAIN dates
        THEN [panic |-> "no entry found for key", stats |-> st]
        ELSE LET within == is_within_date(r, dates[owner][1], dates[owner][2])
             IN  IF within.panic # "" THEN [panic |-> within.panic, stats |-> st]
                 ELSE IF ~within.val THEN [panic |-> "", stats |-> st]
                 ELSE AddReview(st, r, users)

\* the loop of get_average_stats over stats.values()
RECURSIVE SumAll(_, _, _)
SumAll(st, todo, acc) ==
    IF todo = {} THEN acc
    ELSE LET u == CHOOSE x \in todo : TRUE
             repo == st[u]["All"]
         IN  SumAll(st, todo \ {u}, [c \in Counters |-> acc[c] + repo[c]])

\* Variant of get_average_stats that divides by the number of configured users
get_average_stats_per_configured(st) ==
    IF \E u \in DOMAIN st : "All" \notin DOMAIN st[u]
    THEN [panic |-> "Failed to get 'All' row", val |-> Stats_new]
    ELSE LET sum == SumAll(st, DOMAIN st, Stats_new)
             count == Len(config.user)
         IN  IF count = 0
             THEN [panic |-> "attempt to divide by zero", val |-> Stats_new]
             ELSE [panic |-> "", val |-> [c \in Counters |-> sum[c] \div count]]

\* get_average_stats: a panic message or the average Stats
get_average_stats(st) ==
    IF \E u \in DOMAIN st : "All" \notin DOMAIN st[u]
    THEN [panic |-> "Failed to get 'All' row", val |-> Stats_new]
    ELSE LET sum == SumAll(st, DOMAIN st, Stats_new)
             count == Cardinality(DOMAIN st)
         IN  IF count = 0
             THEN [panic |-> "attempt to divide by zero", val |-> Stats_new]
             ELSE [panic |-> "", val |-> [c \in Counters |-> sum[c] \div count]]

\* -------------------------------------------------------------------------
\* Report rows (src/main.rs)
\* -------------------------------------------------------------------------
Header == <<"User", "Repo", "CH", "AP", "CM", "CR", "CR/CH", "CW", "CW/CH", "PS", "PS/CH">>

\* `a as f32 / b as f32`: IEEE division never panics
Ratio(a, b) ==
    IF b = 0 THEN (IF a = 0 THEN <<"NaN">> ELSE <<"inf">>) ELSE <<a, "/", b>>

\* the record write_record hands to the csv writer
write_record(user, repo, s) ==
    <<user, repo, s.changes, s.approvals, s.comments_made, s.comments_received,
      Ratio(s.comments_received, s.changes), s.commit_words,
      Ratio(s.commit_words, s.changes), s.patch_sets, Ratio(s.patch_sets, s.changes)>>

\* The keys the model uses, in the byte order a BTreeMap<String, _> iterates in
KeyOrder == <<"All", "alice", "bob", "carol", "repoA", "repoB">>

SortedKeys(m) == SelectSeq(KeyOrder, LAMBDA k : k \in DOMAIN m)

\* the rows of stats.csv after the header and the average row
SimpleRows(st, users) ==
    LET ks == SortedKeys(st)
    IN  [i \in DOMAIN ks |-> write_record(users[ks[i]], "All", st[ks[i]]["All"])]

RECURSIVE DetailedRowsFrom(_, _, _, _)
DetailedRowsFrom(st, users, ks, i) ==
    IF i > Len(ks) THEN <<>>
    ELSE LET rs == SortedKeys(st[ks[i]])
         IN  [j \in DOMAIN rs |-> write_record(users[ks[i]], rs[j], st[ks[i]][rs[j]])]
             \o DetailedRowsFrom(st, users, ks, i + 1)

DetailedRows(st, users) == DetailedRowsFrom(st, users, SortedKeys(st), 1)

\* -------------------------------------------------------------------------
\* Inputs: the reviews a fetch can return
\* -------------------------------------------------------------------------
User(u) == [name |-> u, username |-> u]

Comment(u) == [reviewer |-> User(u), message |-> "m"]

Approval(t, v, g, u) == [review_type |-> t, value |-> v, granted_on |-> g, by |-> User(u)]

PatchSet(a, c) == [approvals |-> a, comments |-> c]

Review(owner, project, msg, ps) ==
    [project |-> project, branch |-> "master", id |-> "I1", number |-> 1,
     owner |-> User(owner), commit_message |-> msg, comments |-> <<>>, patch_sets |-> ps]

\* #[derive(Default)]
Review_default == Review("", "", <<>>, <<>>)

\* alice and bob are configured, carol is not
Usernames == {"alice", "bob", "carol"}

\* the first and last second of every configured window, and the seconds
\* just outside
WindowEdges ==
    UNION { { timestamp(Unwrap(config.user[i].from), StartOfDay) - 1,
              timestamp(Unwrap(config.user[i].from), StartOfDay),
              timestamp(Unwrap(config.user[i].to), EndOfDay),
              timestamp(Unwrap(config.user[i].to), EndOfDay) + 1 } : i \in DOMAIN config.user }

\* a second inside every configured window, and one outside all of them
InEveryWindow == timestamp(config.to, EndOfDay)
OutOfWindow == timestamp(config.to, EndOfDay) + 1

Subm(g) == Approval("SUBM", "1", g, "alice")
CR(v, u) == Approval("Code-Review", v, InEveryWindow, u)

\* Approval lists that decide eligibility
DateApprovals ==
    {None, Some(<<>>), Some(<<CR("2", "bob")>>),
     Some(<<CR("2", "bob"), Subm(InEveryWindow)>>),
     Some(<<Subm(OutOfWindow), Subm(InEveryWindow)>>),
     Some(<<Approval("Code-Review", "2", OutOfWindow, "bob"), Subm(InEveryWindow)>>),
     Some(<<Approval("Verified", "1", InEveryWindow, "bob")>>)}
    \cup { Some(<<Subm(g)>>) : g \in WindowEdges }

BothComment == Some(<<Comment("alice"), Comment("bob")>>)

\* Reviews that differ in what decides eligibility: the owner, the presence
\* of patch sets and of the approvals list, where the SUBM approval is and
\* when it was granted
DateReviews ==
    { Review(o, "repoA", <<"a">>, ps) :
        o \in Usernames,
        ps \in {<<>>}
            \cup { <<PatchSet(a, BothComment)>> : a \in DateApprovals }
            \cup { <<PatchSet(Some(<<Subm(InEveryWindow), CR("2", "bob")>>), BothComment),
                     PatchSet(a, None)>> :
                   a \in {None, Some(<<>>), Some(<<CR("2", "alice")>>), Some(<<Subm(OutOfWindow)>>)} } }

SubmIn == Subm(InEveryWindow)

\* Patch-set sequences of eligible reviews that differ in the comments and
\* the Code-Review approvals they hold
CountPatchSets ==
    { <<PatchSet(Some(<<SubmIn, CR("2", "bob")>>),
                 Some(<<Comment("alice"), Comment("bob"), Comment("carol")>>))>>,
      <<PatchSet(Some(<<SubmIn, CR("2", "alice"), CR("2", "alice")>>), None)>>,
      <<PatchSet(Some(<<CR("2", "bob"), CR("2", "bob"), SubmIn>>),
                 Some(<<Comment("bob"), Comment("bob")>>))>>,
      <<PatchSet(Some(<<SubmIn, CR("1", "bob"), CR("2", "carol")>>), Some(<<Comment("alice")>>))>>,
      <<PatchSet(Some(<<SubmIn, Approval("Verified", "2", InEveryWindow, "bob")>>), Some(<<>>))>>,
      <<PatchSet(Some(<<CR("2", "bob")>>), Some(<<Comment("bob"), Comment("alice")>>)),
        PatchSet(Some(<<SubmIn, CR("2", "alice"), CR("2", "bob")>>), Some(<<Comment("alice")>>))>>,
      <<PatchSet(None, None), PatchSet(Some(<<SubmIn>>), Some(<<Comment("carol")>>))>> }

Messages == { <<"a">>, <<" ", "a", "b", "\n", "\t", "c", " ">> }

RepoNames == {"repoA", "repoB", "All"}

CountReviews ==
    { Review(o, p, m, ps) :
        o \in {"alice", "bob"}, p \in RepoNames, m \in Messages, ps \in CountPatchSets }

Reviews == DateReviews \cup CountReviews

\* -------------------------------------------------------------------------
\* collect_stats, write_simple_stats, write_detailed_stats as steps of main
\* -------------------------------------------------------------------------
\* One iteration of the loop of collect_stats on review r
CollectStep(r) ==
    LET res == collect_stats_iteration(stats, r, config)
    IN  /\ review' = r
        /\ nproc' = nproc + 1
        /\ stats' = res.stats
        /\ panic' = res.panic
        /\ pc' = IF res.panic # "" THEN "panicked" ELSE "collect"
        /\ UNCHANGED <<cmds, outidx, reviews, avg, files>>

\* collect_stats on a slice of at most MaxReviews arbitrary reviews: the next
\* element is any review
CollectAny ==
    /\ pc = "collect"
    /\ nproc < MaxReviews
    /\ \E r \in Reviews : CollectStep(r)

\* the slice is exhausted: collect_stats returns stats
CollectReturnAny ==
    /\ pc = "collect"
    /\ pc' = "write_simple"
    /\ review' = Review_default
    /\ UNCHANGED <<panic, cmds, outidx, reviews, nproc, stats, avg, files>>

\* What a file holds when the run panics between the writer's creation and
\* its flush: the buffered header reaches the file if the writer is dropped
\* by unwinding, and does not if the build aborts on panic.
UnflushedContents == {<<>>, <<Header>>}

\* write_simple_stats
WriteSimple ==
    /\ pc = "write_simple"
    /\ UNCHANGED <<cmds, outidx, reviews, review, nproc, stats>>
    /\ \E created \in BOOLEAN :
         IF ~created
         THEN /\ pc' = "panicked"
              /\ panic' = "Failed to create csv writer"
              /\ UNCHANGED <<avg, files>>
         ELSE LET a == get_average_stats(stats)
                  users == user_names(config)
              IN  IF a.panic # ""
                  THEN /\ pc' = "panicked"
                       /\ panic' = a.panic
                       /\ avg' = None
                       /\ \E left \in UnflushedContents :
                            files' = MapInsert(files, "stats.csv", left)
                  ELSE IF \E u \in DOMAIN stats : u \notin DOMAIN users
                  THEN /\ pc' = "panicked"
                       /\ panic' = "no entry found for key"
                       /\ avg' = Some(a.val)
                       /\ \E left \in UnflushedContents :
                            files' = MapInsert(files, "stats.csv", left)
                  ELSE /\ pc' = "write_detailed"
                       /\ panic' = ""
                       /\ avg' = Some(a.val)
                       /\ files' = MapInsert(files, "stats.csv",
                                       <<Header, write_record("Average", "All", a.val)>>
                                       \o SimpleRows(stats, users))

\* write_detailed_stats
WriteDetailed ==
    /\ pc = "write_detailed"
    /\ UNCHANGED <<cmds, outidx, reviews, review, nproc, stats, avg>>
    /\ \E created \in BOOLEAN :
         IF ~created
         THEN /\ pc' = "panicked"
              /\ panic' = "Failed to create csv writer"
              /\ UNCHANGED files
         ELSE LET users == user_names(config)
              IN  IF \E u \in DOMAIN stats : u \notin DOMAIN users
                  THEN /\ pc' = "panicked"
                       /\ panic' = "no entry found for key"
                       /\ \E left \in UnflushedContents :
                            files' = MapInsert(files, "detailed.csv", left)
                  ELSE /\ pc' = "done"
                       /\ panic' = ""
                       /\ files' = MapInsert(files, "detailed.csv",
                                       <<Header>> \o DetailedRows(stats, users))

\* -------------------------------------------------------------------------
\* Spec: collect_stats on arbitrary reviews, then the two reports
\* -------------------------------------------------------------------------
\* main at the call of collect_stats: every fetch has been joined and parsed
Init ==
    /\ pc = "collect"
    /\ panic = ""
    /\ cmds = [i \in DOMAIN config.user |->
                [state |-> "ok", output |-> [utf8 |-> TRUE, lines |-> <<>>]]]
    /\ outidx = Len(config.user)
    /\ reviews = <<>>
    /\ review = Review_default
    /\ nproc = 0
    /\ stats = EmptyMap
    /\ avg = None
    /\ files = EmptyMap

Next == CollectAny \/ CollectReturnAny \/ WriteSimple \/ WriteDetailed

Spec == Init /\ [][Next]_vars

\* -------------------------------------------------------------------------
\* SpecMain: main from the config file to the reports
\* -------------------------------------------------------------------------
\* The lines of a fetch output: a review record, the trailing statistics
\* record of `gerrit query`, or text that is no JSON
ReviewLine(r) == [kind |-> "review", review |-> r]
TrailerLine == [kind |-> "stats", review |-> Review_default]
MalformedLine == [kind |-> "malformed", review |-> Review_default]

\* Review::new: serde_json::from_str(line).expect(..); the trailer lacks the
\* fields of a Review
Review_new(line) ==
    IF line.kind = "review" THEN [panic |-> "", val |-> line.review]
    ELSE [panic |-> "Failed to parse json", val |-> Review_default]

\* The reviews the fetch outputs of SpecMain hold: an eligible review of
\* alice with a comment and an approval of bob, a review of bob submitted
\* outside his window, a review of alice without an approvals list, and a
\* review of carol, who is not configured
FetchedReviews ==
    { Review("alice", "repoA", <<"a">>,
             <<PatchSet(Some(<<SubmIn, CR("2", "bob")>>), Some(<<Comment("bob")>>))>>),
      Review("bob", "repoA", <<"a">>, <<PatchSet(Some(<<Subm(OutOfWindow)>>), BothComment)>>),
      Review("alice", "repoA", <<"a">>, <<PatchSet(None, BothComment)>>),
      Review("carol", "repoA", <<"a">>, <<PatchSet(Some(<<SubmIn>>), BothComment)>>) }

LineSet == {TrailerLine, MalformedLine} \cup { ReviewLine(r) : r \in FetchedReviews }

RECURSIVE SeqsUpTo(_, _)
SeqsUpTo(S, n) ==
    IF n = 0 THEN {<<>>}
    ELSE LET shorter == SeqsUpTo(S, n - 1)
         IN  shorter \cup { Append(q, x) : q \in shorter, x \in S }

\* std::process::Output.stdout: bytes that are UTF-8 text of some lines, or not
FetchOutputs ==
    { [utf8 |-> TRUE, lines |-> ls] : ls \in SeqsUpTo(LineSet, MaxLines) }
    \cup { [utf8 |-> FALSE, lines |-> <<>>] }

\* output.lines().rev().skip(1): last to first, without the last line
Reverse(q) == [i \in 1..Len(q) |-> q[Len(q) + 1 - i]]
RevSkip1(ls) == IF Len(ls) = 0 THEN <<>> ELSE Tail(Reverse(ls))

\* the inner loop of the parse loop: push each parsed line until one fails
RECURSIVE PushReviews(_, _, _)
PushReviews(ls, i, acc) ==
    IF i > Len(ls) THEN [panic |-> "", val |-> acc]
    ELSE LET rev == Review_new(ls[i])
         IN  IF rev.panic # "" THEN [panic |-> rev.panic, val |-> acc]
             ELSE PushReviews(ls, i + 1, Append(acc, rev.val))

Panic(msg) ==
    /\ pc' = "panicked"
    /\ panic' = msg

\* Config::from_file
LoadConfig ==
    /\ pc = "config"
    /\ UNCHANGED <<cmds, outidx, reviews, review, nproc, stats, avg, files>>
    /\ \E outcome \in {"unreadable", "malformed", "ok"} :
         CASE outcome = "unreadable" -> Panic("Failed to read config file")
           [] outcome = "malformed" -> Panic("Failed to parse config file")
           [] outcome = "ok" -> pc' = "spawn" /\ panic' = ""

\* one iteration of `for user in &config.user`, and after the last one
\* join_all(cmds) and Core::new()
SpawnTask ==
    /\ pc = "spawn"
    /\ Len(cmds) < Len(config.user)
    /\ UNCHANGED <<outidx, reviews, review, nproc, stats, avg, files>>
    /\ \E spawned \in BOOLEAN :
         IF ~spawned
         THEN Panic("Failed to spawn command") /\ UNCHANGED cmds
         ELSE /\ cmds' = Append(cmds, [state |-> "running", output |-> [utf8 |-> TRUE, lines |-> <<>>]])
              /\ IF Len(cmds') < Len(config.user)
                 THEN pc' = "spawn" /\ panic' = ""
                 ELSE \E reactor \in BOOLEAN :
                        IF reactor THEN pc' = "join" /\ panic' = ""
                        ELSE Panic("Failed to create reactor")

\* core.run(join_all(cmds)): a poll in which task i resolves.  JoinAll
\* returns the error of the first task that fails at once, and the outputs
\* in spawn order once every task has resolved.
TaskResolves(i) ==
    /\ pc = "join"
    /\ cmds[i].state = "running"
    /\ UNCHANGED <<outidx, reviews, review, nproc, stats, avg, files>>
    /\ \/ /\ cmds' = [cmds EXCEPT ![i].state = "err"]
          /\ Panic("Failed to run work")
       \/ \E out \in FetchOutputs :
            /\ cmds' = [cmds EXCEPT ![i] = [state |-> "ok", output |-> out]]
            /\ panic' = ""
            /\ pc' = IF \A j \in DOMAIN cmds' : cmds'[j].state = "ok" THEN "parse" ELSE "join"

Join == \E i \in DOMAIN cmds : TaskResolves(i)

\* Variant of the parse loop that decodes the output lossily
ParseOutputLossy ==
    /\ pc = "parse"
    /\ outidx < Len(cmds)
    /\ outidx' = outidx + 1
    /\ UNCHANGED <<cmds, review, nproc, stats, avg, files>>
    /\ LET out == cmds[outidx + 1].output
           pushed == PushReviews(RevSkip1(out.lines), 1, reviews)
       IN  /\ reviews' = pushed.val
           /\ panic' = pushed.panic
           /\ pc' = IF pushed.panic # "" THEN "panicked"
                    ELSE IF outidx' = Len(cmds) THEN "collect" ELSE "parse"

\* one iteration of `for output in &ret`
ParseOutput ==
    /\ pc = "parse"
    /\ outidx < Len(cmds)
    /\ outidx' = outidx + 1
    /\ UNCHANGED <<cmds, review, nproc, stats, avg, files>>
    /\ LET out == cmds[outidx + 1].output
       IN  IF ~out.utf8
           THEN Panic("Failed to read command output") /\ UNCHANGED reviews
           ELSE LET pushed == PushReviews(RevSkip1(out.lines), 1, reviews)
                IN  /\ reviews' = pushed.val
                    /\ panic' = pushed.panic
                    /\ pc' = IF pushed.panic # "" THEN "panicked"
                             ELSE IF outidx' = Len(cmds) THEN "collect" ELSE "parse"

\* one iteration of `for review in reviews` on the parsed reviews
CollectNext ==
    /\ pc = "collect"
    /\ nproc < Len(reviews)
    /\ CollectStep(reviews[nproc + 1])

\* the loop is over: collect_stats returns stats
CollectReturn ==
    /\ pc = "collect"
    /\ nproc = Len(reviews)
    /\ pc' = "write_simple"
    /\ review' = Review_default
    /\ UNCHANGED <<panic, cmds, outidx, reviews, nproc, stats, avg, files>>

InitMain ==
    /\ pc = "config"
    /\ panic = ""
    /\ cmds = <<>>
    /\ outidx = 0
    /\ reviews = <<>>
    /\ review = Review_default
    /\ nproc = 0
    /\ stats = EmptyMap
    /\ avg = None
    /\ files = EmptyMap

NextMain ==
    \/ LoadConfig
    \/ SpawnTask
    \/ Join
    \/ ParseOutput
    \/ CollectNext
    \/ CollectReturn
    \/ WriteSimple
    \/ WriteDetailed

SpecMain == InitMain /\ [][NextMain]_vars

\* -------------------------------------------------------------------------
\* Properties
\* -------------------------------------------------------------------------
\* The configured users and their windows, read off the config file: a
\* user's own date where given, the global one otherwise
Configured == { ConfigFile.user[i].username : i \in DOMAIN ConfigFile.user }

ConfigEntry(u) == ConfigFile.user[CHOOSE i \in DOMAIN ConfigFile.user : ConfigFile.user[i].username = u]

FromDate(u) == IF ConfigEntry(u).from = None THEN ConfigFile.from ELSE ConfigEntry(u).from[1]
ToDate(u) == IF ConfigEntry(u).to = None THEN ConfigFile.to ELSE ConfigEntry(u).to[1]

\* 00:00:00 of the 'from' date and 23:59:59 of the 'to' date
FromTs(u) == FromDate(u) * 86400
ToTs(u) == ToDate(u) * 86400 + 86399

\* the last patch set of r holds a SUBM approval granted within the window
\* of r's owner
SubmittedInWindow(r) ==
    /\ r.owner.username \in Configured
    /\ r.patch_sets # <<>>
    /\ LET last == r.patch_sets[Len(r.patch_sets)]
       IN  /\ last.approvals # None
           /\ \E a \in { last.approvals[1][i] : i \in DOMAIN last.approvals[1] } :
                /\ a.review_type = "SUBM"
                /\ FromTs(r.owner.username) <= a.granted_on
                /\ a.granted_on <= ToTs(r.owner.username)

\* a step that runs the loop body of collect_stats on review'
Iteration == pc = "collect" /\ nproc' = nproc + 1

\* the cell of user u for repository p, all zero while it does not exist
Cell(st, u, p) == IF u \in DOMAIN st /\ p \in DOMAIN st[u] THEN st[u][p] ELSE Stats_new

RECURSIVE SumOver(_, _)
SumOver(S, f) ==
    IF S = {} THEN 0
    ELSE LET x == CHOOSE y \in S : TRUE IN f[x] + SumOver(S \ {x}, f)

\* the number of comments of r, over all its patch sets
TotalComments(r) ==
    SumOver(DOMAIN r.patch_sets,
            [i \in DOMAIN r.patch_sets |->
                IF r.patch_sets[i].comments = None THEN 0
                ELSE Len(r.patch_sets[i].comments[1])])

\* the number of comments of r, over all its patch sets, made by user V
CommentsOf(r, V) ==
    SumOver(DOMAIN r.patch_sets,
            [i \in DOMAIN r.patch_sets |->
                IF r.patch_sets[i].comments = None THEN 0
                ELSE Cardinality({ j \in DOMAIN r.patch_sets[i].comments[1] :
                                     r.patch_sets[i].comments[1][j].reviewer.username = V })])

\* C1: an iteration on a review of a configured owner changes the mapping
\* if and only if the review's last patch set holds a SUBM approval granted
\* between 00:00:00 of the owner's from date and 23:59:59 of the owner's to
\* date, both inclusive; any other review leaves every cell as it was.
C1_ChangesIffSubmittedInWindow ==
    [][(Iteration /\ review'.owner.username \in Configured)
          => ((stats' # stats) <=> SubmittedInWindow(review'))]_vars

\* C1 witness: a review submitted in the last second of its owner's window
\* has been counted
C1_Witness ==
    /\ pc = "collect"
    /\ nproc > 0
    /\ review.owner.username \in Configured
    /\ SubmittedInWindow(review)
    /\ \A i \in DOMAIN review.patch_sets[Len(review.patch_sets)].approvals[1] :
          LET a == review.patch_sets[Len(review.patch_sets)].approvals[1][i]
          IN  a.review_type = "SUBM" /\ a.granted_on = ToTs(review.owner.username)
    /\ Cell(stats, review.owner.username, "All").changes >= 1

\* C2: an iteration on an eligible review of owner U in repository P with N
\* comments, k patch sets and w commit-message words adds exactly
\* changes 1, comments_received N, patch_sets k, commit_words w to U's "All"
\* cell and to U's P cell, whatever P is.
C2_OwnerCountersClaim ==
    [][(Iteration /\ SubmittedInWindow(review'))
          => LET U == review'.owner.username
                 N == TotalComments(review')
                 k == Len(review'.patch_sets)
                 w == commit_message_words(review')
             IN  \A p \in {"All", review'.project} :
                    /\ Cell(stats', U, p).changes = Cell(stats, U, p).changes + 1
                    /\ Cell(stats', U, p).comments_received = Cell(stats, U, p).comments_received + N
                    /\ Cell(stats', U, p).patch_sets = Cell(stats, U, p).patch_sets + k
                    /\ Cell(stats', U, p).commit_words = Cell(stats, U, p).commit_words + w]_vars

\* the configured users with a Code-Review approval of value "2" on the
\* last patch set of r
Approvers(r) ==
    LET last == r.patch_sets[Len(r.patch_sets)].approvals[1]
    IN  { last[i].by.username : i \in { j \in DOMAIN last :
                                           /\ last[j].review_type = "Code-Review"
                                           /\ last[j].value = "2" } } \cap Configured

\* C3: an iteration on an eligible review adds exactly 1 to the approvals
\* of every configured user V with a Code-Review "2" approval on the last
\* patch set, on V's "All" cell and on V's cell for the repository, however
\* many such approval records V has, and does not add to V's changes.
\* Stated for the repositories not named "All", where the two cells are
\* two cells.
C3_ApprovalOncePerReviewClaim ==
    [][(Iteration /\ SubmittedInWindow(review') /\ review'.project # "All")
          => \A V \in Approvers(review') : \A p \in {"All", review'.project} :
                /\ Cell(stats', V, p).approvals = Cell(stats, V, p).approvals + 1
                /\ V # review'.owner.username
                      => Cell(stats', V, p).changes = Cell(stats, V, p).changes]_vars

\* C4: an iteration on an eligible review adds to the comments_made of a
\* configured user V other than the owner 1 per comment of V, on V's "All"
\* cell and on V's cell for the repository, and leaves V's changes alone;
\* the owner's comments and those of unconfigured users add to nobody's
\* comments_made.
C4_CommentsMadeClaim ==
    [][(Iteration /\ SubmittedInWindow(review'))
          => /\ \A V \in Configured \ {review'.owner.username} :
                   \A p \in {"All", review'.project} :
                      /\ Cell(stats', V, p).comments_made
                            = Cell(stats, V, p).comments_made
                              + CommentsOf(review', V)
                      /\ Cell(stats', V, p).changes = Cell(stats, V, p).changes
             /\ \A V \in (Usernames \ Configured) \cup {review'.owner.username} :
                   \A p \in {"All", review'.project} :
                      Cell(stats', V, p).comments_made = Cell(stats, V, p).comments_made]_vars

\* C5: every user of the mapping has an "All" cell, each counter of which
\* is the sum of that counter over the user's repository cells; after one
\* eligible review the owner's "All" changes is 1.
C5_AllIsSumOfReposClaim ==
    /\ \A u \in DOMAIN stats :
          /\ "All" \in DOMAIN stats[u]
          /\ \A c \in Counters :
                stats[u]["All"][c]
                   = SumOver(DOMAIN stats[u] \ {"All"},
                             [p \in DOMAIN stats[u] \ {"All"} |-> stats[u][p][c]])
    /\ (pc = "collect" /\ nproc = 1 /\ SubmittedInWindow(review))
          => Cell(stats, review.owner.username, "All").changes = 1

\* the last iteration ran on a review whose owner is not configured
UnconfiguredOwner ==
    /\ nproc > 0
    /\ pc \in {"collect", "panicked"}
    /\ review # Review_default
    /\ review.owner.username \notin Configured

\* C6: a review owned by an unconfigured user is excluded without error.
C6_UnconfiguredOwnerSkippedClaim == UnconfiguredOwner => pc # "panicked"

\* C6 amended: an iteration on a review owned by an unconfigured user ends
\* the run with the lookup panic and leaves the mapping as it was; no review
\* is processed after a panic.
C6_UnconfiguredOwnerIsFatal ==
    [][/\ (Iteration /\ review'.owner.username \notin Configured)
            => (pc' = "panicked" /\ panic' = "no entry found for key" /\ stats' = stats)
       /\ pc = "panicked" => (pc' = "panicked" /\ nproc' = nproc /\ stats' = stats)]_vars

C6_Witness ==
    /\ UnconfiguredOwner
    /\ pc = "panicked"
    /\ panic = "no entry found for key"
    /\ nproc = 2
    /\ stats # EmptyMap

\* C7: for a review of a configured owner with a last patch set, an absent
\* approvals list ends the run with a panic and no later review is
\* processed; a present list without a SUBM approval in the window skips the
\* review and the loop goes on.
C7_AbsentApprovalsFatalElseSkip ==
    [][/\ (Iteration /\ review'.owner.username \in Configured /\ review'.patch_sets # <<>>)
            => LET last == review'.patch_sets[Len(review'.patch_sets)]
               IN  /\ last.approvals = None
                        => /\ pc' = "panicked"
                           /\ panic' = "Failed to get approval change"
                           /\ stats' = stats
                   /\ (last.approvals # None /\ ~SubmittedInWindow(review'))
                        => (pc' = "collect" /\ panic' = "" /\ stats' = stats)
       /\ pc = "panicked" => (pc' = "panicked" /\ nproc' = nproc /\ stats' = stats)]_vars

\* C7 witness: the second review of a run had no approvals list on its last
\* patch set and ended the run
C7_Witness ==
    /\ pc = "panicked"
    /\ panic = "Failed to get approval change"
    /\ nproc = 2
    /\ review.owner.username \in Configured
    /\ review.patch_sets # <<>>
    /\ review.patch_sets[Len(review.patch_sets)].approvals = None

\* C8: a run that ends in a fatal error has created neither report file.
C8_NoFileOnFatalErrorClaim == pc = "panicked" => DOMAIN files = {}

\* C9: with n >= 1 users in the mapping, each counter of the average is the
\* truncated quotient of the sum of that counter over the users' "All"
\* cells by n.
C9_AverageIsTruncatedMean ==
    avg # None
       => LET n == Cardinality(DOMAIN stats)
          IN  /\ n >= 1
              /\ \A c \in Counters :
                    LET total == SumOver(DOMAIN stats, [u \in DOMAIN stats |-> stats[u]["All"][c]])
                    IN  /\ avg[1][c] * n <= total
                        /\ total < (avg[1][c] + 1) * n

\* C9 witness: an average over two users, one of them present only as
\* commenter or approver, with a sum that n does not divide
C9_Witness ==
    /\ avg # None
    /\ Cardinality(DOMAIN stats) = 2
    /\ \E u \in DOMAIN stats : stats[u]["All"].changes = 0
    /\ \E c \in Counters :
          SumOver(DOMAIN stats, [u \in DOMAIN stats |-> stats[u]["All"][c]]) % 2 = 1

\* a fetch task that failed: its future resolved to an error, or its output
\* is not UTF-8
FetchFailed(i) == cmds[i].state = "err" \/ (cmds[i].state = "ok" /\ ~cmds[i].output.utf8)

====
